---------------------------- MODULE Spec2Model ----------------------------
(***************************************************************************)
(* Model of build.py, the PyInstaller build script of base-converter.      *)
(*                                                                         *)
(* Strings the script computes with (platform names, file names inside     *)
(* dist, captured stdout) are sequences of one-character strings, so that  *)
(* lower(), startswith(), `in` and the f-string concatenations are         *)
(* computed the way the script computes them.  Names of files the script   *)
(* only writes (the spec file, the installers, PACKAGE_INFO.txt) are plain *)
(* strings.                                                                *)
(***************************************************************************)
EXTENDS Integers, Sequences, FiniteSets, TLC

VARIABLES
    host,        \* what platform.system(), platform.machine(), sys.platform report
    pyinstaller, \* whether `import PyInstaller` succeeds (main, line 328)
    dirs,        \* which of build, dist, __pycache__ exist in the working directory
    dist,        \* names of the files inside dist
    cwd,         \* names of the files the script wrote into the working directory
    runs,        \* number of invocations started so far
    entry,       \* what was invoked: "main" or a direct call of "build_executable"
    pc,          \* position inside the invocation
    log,         \* side effects of the current invocation, in order
    tool,        \* outcome of the PyInstaller subprocess of this invocation
    build,       \* what build_executable did and returned
    test,        \* what test_executable did and returned
    detected,    \* the last value get_platform_info returned, <<>> before any call
    exitCode,    \* <<>> while running, <<code>> once the process has exited
    prev         \* output files left by the previous invocation, when it was a
                 \* main run that ended with exit code 0 and whose packaging
                 \* tool delivered its artifact; <<>> otherwise

vars == <<host, pyinstaller, dirs, dist, cwd, runs, entry, pc, log, tool, build,
          test, detected, exitCode, prev>>

---------------------------------------------------------------------------
(* Bounds of the model *)

\* invocations of the script on the same working directory
MaxRuns == 2
\* largest exit code an external process returns
MaxExit == 1
\* longest run time of the smoke-tested executable that still terminates
MaxDuration == 11
\* longest generated raw machine string
MaxLen == 3

(* timeout=10 of subprocess.run in test_executable *)
Timeout == 10

---------------------------------------------------------------------------
(* String literals *)

s_base_converter == <<"b","a","s","e","-","c","o","n","v","e","r","t","e","r">>
s_exe == <<".","e","x","e">>
s_dash == <<"-">>
s_windows == <<"w","i","n","d","o","w","s">>
s_darwin == <<"d","a","r","w","i","n">>
s_linux == <<"l","i","n","u","x">>
s_win == <<"w","i","n">>
s_x86_64 == <<"x","8","6","_","6","4">>
s_amd64 == <<"a","m","d","6","4">>
s_aarch64 == <<"a","a","r","c","h","6","4">>
s_arm64 == <<"a","r","m","6","4">>
s_arm == <<"a","r","m">>
s_Binary == <<"B","i","n","a","r","y">>

UpperChars == <<"A","B","C","D","E","F","G","H","I","J","K","L","M",
                "N","O","P","Q","R","S","T","U","V","W","X","Y","Z">>
LowerChars == <<"a","b","c","d","e","f","g","h","i","j","k","l","m",
                "n","o","p","q","r","s","t","u","v","w","x","y","z">>

(* str.lower() *)
LowerChar(c) ==
    IF \E i \in 1..Len(UpperChars) : UpperChars[i] = c
    THEN LowerChars[CHOOSE i \in 1..Len(UpperChars) : UpperChars[i] = c]
    ELSE c

StrLower(s) == [i \in 1..Len(s) |-> LowerChar(s[i])]

(* str.startswith(p) *)
StartsWith(s, p) == Len(s) >= Len(p) /\ SubSeq(s, 1, Len(p)) = p

(* `p in s` on strings *)
Contains(s, p) ==
    \E i \in 1..(Len(s) + 1) :
        i + Len(p) - 1 <= Len(s) /\ SubSeq(s, i, i + Len(p) - 1) = p

---------------------------------------------------------------------------
(* get_platform_info *)

NormalizeArchArmFirst(architecture) ==
    IF architecture = s_x86_64 THEN s_amd64
    ELSE IF StartsWith(architecture, s_arm) THEN s_arm
    ELSE IF architecture = s_aarch64 \/ architecture = s_arm64 THEN s_arm64
    ELSE architecture

\* the if/elif chain of lines 19-24, on the lowercased machine string
NormalizeArch(architecture) ==
    IF architecture = s_x86_64 THEN s_amd64
    ELSE IF architecture = s_aarch64 \/ architecture = s_arm64 THEN s_arm64
    ELSE IF StartsWith(architecture, s_arm) THEN s_arm
    ELSE architecture

\* <<system, architecture>>
get_platform_info(h) ==
    <<StrLower(h.system), NormalizeArch(StrLower(h.machine))>>

---------------------------------------------------------------------------
(* File names *)

\* exe_name of the generated spec file (lines 49-51): PyInstaller writes dist/<exe_name>
SpecExeName(sys_platform) ==
    IF StartsWith(sys_platform, s_win) THEN s_base_converter \o s_exe
    ELSE s_base_converter

\* exe_name of build_executable (lines 138-140)
OriginalExeName(system) ==
    IF system = s_windows THEN s_base_converter \o s_exe ELSE s_base_converter

\* platform_exe of build_executable (line 144), without the dist/ prefix
PlatformExeName(system, arch) ==
    s_base_converter \o s_dash \o system \o s_dash \o arch
        \o (IF system = s_windows THEN s_exe ELSE <<>>)

TestExeNameNoSuffix(system, arch) ==
    s_base_converter \o s_dash \o system \o s_dash \o arch

\* exe_name of test_executable (lines 293-295), without the dist/ prefix
TestExeName(system, arch) ==
    LET exe_name == s_base_converter \o s_dash \o system \o s_dash \o arch
    IN  IF system = s_windows THEN exe_name \o s_exe ELSE exe_name

\* the file create_installer_script writes (lines 164-169, 193, 215, 253)
InstallerFor(system) ==
    IF system = s_windows THEN "install-windows.bat"
    ELSE IF system = s_darwin THEN "install-macos.sh"
    ELSE "install-linux.sh"

Installers == {"install-windows.bat", "install-macos.sh", "install-linux.sh"}

---------------------------------------------------------------------------
(* File-system primitives *)

\* dirs_to_clean (line 31)
dirs_to_clean == {"build", "dist", "__pycache__"}

UnlinkSkipped(d, f) == d

\* Path.unlink (line 148)
Unlink(d, f) == d \ {f}

\* Path.rename raises FileExistsError on Windows when the destination exists
RenameRaises(system, d, dst) == system = s_windows /\ dst \in d

RenameAsCopy(d, src, dst) == d \cup {dst}

\* Path.rename (line 149), when it does not raise
Rename(d, src, dst) == (d \ {src}) \cup {dst}

---------------------------------------------------------------------------
(* Control flow of main and return values *)

BuildReturnStrict(found) == found

\* line 152: build_executable returns True whether or not the artifact was found
BuildReturn(found) == TRUE

AfterBuildIgnoresFailure(ok) == "test"

AfterBuildSkipsTest(ok) == IF ok THEN "installer" ELSE "exit"

\* lines 338-342: a failed build exits, a successful one goes on to the test
AfterBuild(ok) == IF ok THEN "test" ELSE "exit"

AfterTestFatal(ok) == IF ok THEN "installer" ELSE "exit"

\* lines 343-347: a failed test prints a warning and main goes on
AfterTest(ok) == "installer"

TestVerdictEitherOne(returncode, stdout) ==
    returncode = 0 \/ Contains(stdout, s_Binary)

\* line 307
TestVerdict(returncode, stdout) ==
    returncode = 0 /\ Contains(stdout, s_Binary)

---------------------------------------------------------------------------
(* Inputs *)

Str_Windows == <<"W","i","n","d","o","w","s">>
Str_Linux == <<"L","i","n","u","x">>
Str_Darwin == <<"D","a","r","w","i","n">>
Str_FreeBSD == <<"F","r","e","e","B","S","D">>
Str_AMD64 == <<"A","M","D","6","4">>
Str_armv7l == <<"a","r","m","v","7","l">>
Str_riscv64 == <<"r","i","s","c","v","6","4">>
Str_win32 == <<"w","i","n","3","2">>
Str_freebsd14 == <<"f","r","e","e","b","s","d","1","4">>

Host(s, m, p) == [system |-> s, machine |-> m, sys_platform |-> p]

\* hosts the pipeline is run on
Hosts ==
    { Host(Str_Windows, Str_AMD64, Str_win32),
      Host(Str_Linux, s_x86_64, s_linux),
      Host(Str_Linux, Str_armv7l, s_linux),
      Host(Str_Linux, Str_riscv64, s_linux),
      Host(Str_Darwin, s_arm64, s_darwin),
      Host(Str_FreeBSD, s_amd64, Str_freebsd14) }

ExitCodes == 0..MaxExit

\* what the built executable does when run with --list-bases
StdoutTexts ==
    { s_Binary \o <<"|">> \o <<"H","e","x">>,
      <<"2",":"," ">> \o s_Binary,
      <<"b","i","n","a","r","y">>,
      <<"B","i","n","a","r">>,
      <<>> }

NoProc == [kind |-> "none", returncode |-> 0, stdout |-> <<>>, duration |-> 0]

Procs ==
    [kind : {"exits"}, returncode : ExitCodes, stdout : StdoutTexts,
     duration : 0..MaxDuration]
    \cup {[kind |-> "hangs", returncode |-> 0, stdout |-> <<>>, duration |-> 0],
          [kind |-> "oserror", returncode |-> 0, stdout |-> <<>>, duration |-> 0]}

NoTool == [ran |-> FALSE, returncode |-> 0, produced |-> FALSE]
NoBuild == [returned |-> FALSE, result |-> FALSE, found |-> FALSE,
            renamed |-> FALSE, targetExisted |-> FALSE, raised |-> FALSE]
NoTest == [ran |-> FALSE, result |-> FALSE, outcome |-> "none", launches |-> 0,
           elapsed |-> 0, proc |-> NoProc]

Entries == {"main", "build_executable"}

StartPc(e) == IF e = "main" THEN "main" ELSE "build_spec"

---------------------------------------------------------------------------
(* The pipeline *)

Init ==
    /\ host \in Hosts
    /\ pyinstaller \in BOOLEAN
    /\ dirs = {}
    /\ dist = {}
    /\ cwd = {}
    /\ runs = 1
    /\ entry \in Entries
    /\ pc = StartPc(entry)
    /\ log = <<>>
    /\ tool = NoTool
    /\ build = NoBuild
    /\ test = NoTest
    /\ detected = <<>>
    /\ exitCode = <<>>
    /\ prev = <<>>

\* main, lines 326-332: the import probe; pip install with check=True raises
\* CalledProcessError when pip fails, which nothing catches
CheckPyInstaller ==
    /\ pc = "main"
    /\ IF pyinstaller
       THEN /\ pc' = "clean"
            /\ UNCHANGED <<pyinstaller, exitCode>>
       ELSE \E installed \in BOOLEAN :
               /\ pyinstaller' = installed
               /\ pc' = IF installed THEN "clean" ELSE "exited"
               /\ exitCode' = IF installed THEN exitCode ELSE <<1>>
    /\ UNCHANGED <<host, dirs, dist, cwd, runs, entry, log, tool, build, test,
                   detected, prev>>

\* clean_build_dirs, lines 29-35
CleanBuildDirs ==
    /\ pc = "clean"
    /\ dirs' = dirs \ dirs_to_clean
    /\ dist' = IF "dist" \in dirs_to_clean THEN {} ELSE dist
    /\ log' = Append(log, "clean")
    /\ pc' = "build_spec"
    /\ UNCHANGED <<host, pyinstaller, cwd, runs, entry, tool, build, test,
                   detected, exitCode, prev>>

\* build_executable, lines 118-123: create_spec_file (lines 38-113)
CreateSpecFile ==
    /\ pc = "build_spec"
    /\ detected' = get_platform_info(host)
    /\ cwd' = cwd \cup {"base-converter.spec"}
    /\ log' = Append(log, "config")
    /\ pc' = "build_run"
    /\ UNCHANGED <<host, pyinstaller, dirs, dist, runs, entry, tool, build, test,
                   exitCode, prev>>

\* build_executable, lines 126-133: python -m PyInstaller --clean base-converter.spec.
\* The tool writes dist/<exe_name of the spec file> or nothing; without the
\* module installed the interpreter exits nonzero.
RunPyInstaller ==
    /\ pc = "build_run"
    /\ \E rc \in ExitCodes, produced \in BOOLEAN :
          /\ ~pyinstaller => (rc # 0 /\ ~produced)
          /\ tool' = [ran |-> TRUE, returncode |-> rc, produced |-> produced]
          /\ dirs' = dirs \cup {"build"} \cup (IF produced THEN {"dist"} ELSE {})
          /\ dist' = IF produced
                     THEN dist \cup {SpecExeName(host.sys_platform)}
                     ELSE dist
          /\ pc' = IF rc = 0 THEN "build_rename" ELSE "build_except"
    /\ log' = Append(log, "tool")
    /\ UNCHANGED <<host, pyinstaller, cwd, runs, entry, build, test, detected,
                   exitCode, prev>>

\* build_executable, lines 134-152: the rename and return True
RenameArtifact ==
    /\ pc = "build_rename"
    /\ LET system == detected[1]
           arch == detected[2]
           original_exe == OriginalExeName(system)
           platform_exe == PlatformExeName(system, arch)
           found == original_exe \in dist
           existed == platform_exe \in dist
           unlinked == IF found /\ existed THEN Unlink(dist, platform_exe) ELSE dist
       IN  IF found /\ RenameRaises(system, unlinked, platform_exe)
           THEN /\ dist' = unlinked
                /\ build' = [NoBuild EXCEPT !.raised = TRUE, !.found = TRUE,
                                           !.targetExisted = existed]
                /\ log' = log
                /\ pc' = "exited"
                /\ exitCode' = <<1>>
           ELSE /\ dist' = IF found
                           THEN Rename(unlinked, original_exe, platform_exe)
                           ELSE dist
                /\ build' = [returned |-> TRUE, result |-> BuildReturn(found),
                             found |-> found, renamed |-> found,
                             targetExisted |-> existed, raised |-> FALSE]
                /\ log' = IF found THEN Append(log, "rename") ELSE log
                /\ pc' = IF entry = "main" THEN "main_after_build" ELSE "returned"
                /\ exitCode' = exitCode
    /\ UNCHANGED <<host, pyinstaller, dirs, cwd, runs, entry, tool, test, detected,
                   prev>>

\* build_executable, lines 154-157: CalledProcessError caught, return False
BuildExcept ==
    /\ pc = "build_except"
    /\ build' = [NoBuild EXCEPT !.returned = TRUE, !.result = FALSE]
    /\ pc' = IF entry = "main" THEN "main_after_build" ELSE "returned"
    /\ UNCHANGED <<host, pyinstaller, dirs, dist, cwd, runs, entry, log, tool, test,
                   detected, exitCode, prev>>

\* main, lines 338-340
MainAfterBuild ==
    /\ pc = "main_after_build"
    /\ LET next == AfterBuild(build.result)
       IN  /\ pc' = IF next = "exit" THEN "exited" ELSE next
           /\ exitCode' = IF next = "exit" THEN <<1>> ELSE exitCode
    /\ UNCHANGED <<host, pyinstaller, dirs, dist, cwd, runs, entry, log, tool, build,
                   test, detected, prev>>

\* what subprocess.run(..., timeout=10) does with the process p (lines 305-318)
TestOutcome(p, timedOut) ==
    IF p.kind = "oserror" THEN "error"
    ELSE IF timedOut THEN "timeout"
    ELSE IF TestVerdict(p.returncode, p.stdout) THEN "passed"
    ELSE "failed"

\* test_executable, lines 290-318
TestExecutable ==
    /\ pc = "test"
    /\ detected' = get_platform_info(host)
    /\ LET exe_name == TestExeName(detected'[1], detected'[2])
       IN  IF exe_name \notin dist
           THEN test' = [NoTest EXCEPT !.ran = TRUE, !.outcome = "not_found"]
           ELSE \E p \in Procs, timedOut \in BOOLEAN :
                   /\ p.kind = "hangs" => timedOut
                   /\ p.kind = "oserror" => ~timedOut
                   /\ (p.kind = "exits" /\ p.duration < Timeout) => ~timedOut
                   /\ (p.kind = "exits" /\ p.duration > Timeout) => timedOut
                   /\ test' = [ran |-> TRUE,
                               result |-> (TestOutcome(p, timedOut) = "passed"),
                               outcome |-> TestOutcome(p, timedOut),
                               launches |-> 1,
                               elapsed |-> IF timedOut THEN Timeout ELSE p.duration,
                               proc |-> p]
    /\ log' = Append(log, "test")
    /\ pc' = "main_after_test"
    /\ UNCHANGED <<host, pyinstaller, dirs, dist, cwd, runs, entry, tool, build,
                   exitCode, prev>>

\* main, lines 343-344
MainAfterTest ==
    /\ pc = "main_after_test"
    /\ LET next == AfterTest(test.result)
       IN  /\ pc' = IF next = "exit" THEN "exited" ELSE next
           /\ exitCode' = IF next = "exit" THEN <<1>> ELSE exitCode
    /\ UNCHANGED <<host, pyinstaller, dirs, dist, cwd, runs, entry, log, tool, build,
                   test, detected, prev>>

\* create_installer_script, lines 160-169, and the writer it calls
CreateInstallerScript ==
    /\ pc = "installer"
    /\ detected' = get_platform_info(host)
    /\ cwd' = cwd \cup {InstallerFor(detected'[1])}
    /\ log' = Append(log, "installer")
    /\ pc' = "package_info"
    /\ UNCHANGED <<host, pyinstaller, dirs, dist, runs, entry, tool, build, test,
                   exitCode, prev>>

\* create_package_info, lines 259-287, and the rest of main: exit code 0
CreatePackageInfo ==
    /\ pc = "package_info"
    /\ detected' = get_platform_info(host)
    /\ cwd' = cwd \cup {"PACKAGE_INFO.txt"}
    /\ log' = Append(log, "release_info")
    /\ pc' = "done"
    /\ exitCode' = <<0>>
    /\ UNCHANGED <<host, pyinstaller, dirs, dist, runs, entry, tool, build, test,
                   prev>>

Finished == pc \in {"done", "exited", "returned"}

\* the script, or build_executable alone, is invoked again in the same directory
Rerun ==
    /\ Finished
    /\ runs < MaxRuns
    /\ runs' = runs + 1
    /\ \E e \in Entries : entry' = e /\ pc' = StartPc(e)
    /\ prev' = IF entry = "main" /\ pc = "done" /\ tool.produced
               THEN <<[dist |-> dist, cwd |-> cwd]>>
               ELSE <<>>
    /\ log' = <<>>
    /\ tool' = NoTool
    /\ build' = NoBuild
    /\ test' = NoTest
    /\ detected' = <<>>
    /\ exitCode' = <<>>
    /\ UNCHANGED <<host, pyinstaller, dirs, dist, cwd>>

Next ==
    \/ CheckPyInstaller
    \/ CleanBuildDirs
    \/ CreateSpecFile
    \/ RunPyInstaller
    \/ RenameArtifact
    \/ BuildExcept
    \/ MainAfterBuild
    \/ TestExecutable
    \/ MainAfterTest
    \/ CreateInstallerScript
    \/ CreatePackageInfo
    \/ Rerun

Spec == Init /\ [][Next]_vars

---------------------------------------------------------------------------
(* get_platform_info on its own, over many raw machine strings *)

ArchAlphabet == {"a", "r", "m", "v", "6", "4"}

Str_ARM64 == <<"A","R","M","6","4">>
Str_X86_64 == <<"X","8","6","_","6","4">>
Str_i386 == <<"i","3","8","6">>
Str_armv8b == <<"a","r","m","v","8","b">>

RawMachines ==
    {s_x86_64, Str_X86_64, Str_AMD64, s_amd64, s_aarch64, s_arm64, Str_ARM64,
     Str_armv7l, Str_armv8b, Str_i386, Str_riscv64}
    \cup UNION {[1..n -> ArchAlphabet] : n \in 0..MaxLen}

RawSystems == {Str_Linux, Str_Windows}

InitArch ==
    /\ host \in {Host(s, m, s_linux) : s \in RawSystems, m \in RawMachines}
    /\ pyinstaller = TRUE
    /\ dirs = {}
    /\ dist = {}
    /\ cwd = {}
    /\ runs = 1
    /\ entry = "get_platform_info"
    /\ pc = "detect"
    /\ log = <<>>
    /\ tool = NoTool
    /\ build = NoBuild
    /\ test = NoTest
    /\ detected = <<>>
    /\ exitCode = <<>>
    /\ prev = <<>>

\* a call of get_platform_info, lines 14-26
DetectPlatform ==
    /\ pc = "detect"
    /\ detected' = get_platform_info(host)
    /\ pc' = "detected"
    /\ UNCHANGED <<host, pyinstaller, dirs, dist, cwd, runs, entry, log, tool, build,
                   test, exitCode, prev>>

NextArch == DetectPlatform

SpecArch == InitArch /\ [][NextArch]_vars

---------------------------------------------------------------------------
(* Vocabulary of the properties *)

\* base-converter-<os>-<arch>, with .exe exactly when os is windows
ArtifactName(os, arch) ==
    IF os = s_windows
    THEN s_base_converter \o s_dash \o os \o s_dash \o arch \o s_exe
    ELSE s_base_converter \o s_dash \o os \o s_dash \o arch

\* the same name with the suffix decided the wrong way round
WrongSuffixName(os, arch) ==
    IF os = s_windows
    THEN s_base_converter \o s_dash \o os \o s_dash \o arch
    ELSE s_base_converter \o s_dash \o os \o s_dash \o arch \o s_exe

\* base-converter, base-converter.exe on windows
PreRenameName(os) ==
    IF os = s_windows THEN s_base_converter \o s_exe ELSE s_base_converter

HostOs == StrLower(host.system)
HostArch == get_platform_info(host)[2]
HostArtifact == ArtifactName(HostOs, HostArch)

\* the installer variant of an operating system; anything that is neither
\* windows nor darwin is served the linux variant
VariantOf(os) ==
    IF os = s_windows THEN "install-windows.bat"
    ELSE IF os = s_darwin THEN "install-macos.sh"
    ELSE "install-linux.sh"

\* the captured standard output holds the marker "Binary"
HasMarker(stdout) ==
    stdout \in { s_Binary \o <<"|">> \o <<"H","e","x">>, <<"2",":"," ">> \o s_Binary }

AfterTestPcs == {"main_after_test", "installer", "package_info", "done"}

---------------------------------------------------------------------------
(* Properties *)

\* C1: when the packaging tool exited 0 and a file was at the pre-rename path,
\* build_executable returns True without raising, a file is at exactly
\* dist/base-converter-<os>-<arch> (.exe iff os = windows), the pre-rename file
\* is gone, and this holds whether or not the target name was already taken.
C1_RenamedArtifact ==
    (tool.ran /\ tool.returncode = 0 /\ build.found) =>
        /\ ~build.raised
        /\ build.returned /\ build.result
        /\ HostArtifact \in dist
        /\ WrongSuffixName(HostOs, HostArch) \notin dist
        /\ PreRenameName(HostOs) \notin dist

\* C1 witness: on windows, a rename that replaced an artifact of an earlier build
C1_Witness ==
    /\ build.renamed /\ build.targetExisted
    /\ HostOs = s_windows
    /\ HostArtifact \in dist

\* C2: when the packaging tool exits nonzero, build_executable returns False,
\* main goes no further than exiting with a nonzero code, and at the end of the
\* run no renamed artifact is in dist.
C2_PackagingFailure ==
    (entry = "main" /\ tool.ran /\ tool.returncode # 0) =>
        /\ pc \in {"build_except", "main_after_build", "exited"}
        /\ build.returned => ~build.result
        /\ pc \in {"main_after_build", "exited"} => build.returned
        /\ ~test.ran
        /\ pc = "exited" =>
              /\ exitCode # <<>> /\ exitCode # <<0>>
              /\ HostArtifact \notin dist

\* C2 witness: a failed second run after a run that had left an artifact
C2_Witness ==
    /\ entry = "main" /\ pc = "exited"
    /\ tool.ran /\ tool.returncode # 0
    /\ prev # <<>>

\* C3: once the build has succeeded, a failed smoke test (whatever the cause)
\* does not end the run: main goes on, and when it finishes the installer
\* script and PACKAGE_INFO.txt are written and the exit code is 0, as it is
\* after a passed smoke test.
C3_SmokeTestNotFatal ==
    (entry = "main" /\ test.ran) =>
        /\ pc \in AfterTestPcs
        /\ exitCode = <<>> \/ exitCode = <<0>>
        /\ pc = "done" =>
              /\ exitCode = <<0>>
              /\ VariantOf(HostOs) \in cwd
              /\ "PACKAGE_INFO.txt" \in cwd

\* C3 witness: a run that finished after its smoke test timed out
C3_Witness ==
    /\ entry = "main" /\ pc = "done"
    /\ test.outcome = "timeout"
    /\ exitCode = <<0>>

\* C4: test_executable passes exactly when the renamed artifact exists, the
\* process ends within the timeout with exit code 0 and its standard output
\* holds "Binary"; a missing artifact fails without any subprocess being
\* launched; nonzero exit, missing marker, a process that does not end in time
\* and any other exception fail; the call never takes longer than the timeout
\* and nothing escapes to main.
C4_SmokeTestVerdict ==
    test.ran =>
        LET p == test.proc
            exists == HostArtifact \in dist
        IN  /\ test.result =>
                  /\ exists /\ p.kind = "exits" /\ p.duration <= Timeout
                  /\ p.returncode = 0 /\ HasMarker(p.stdout)
            /\ ( /\ exists /\ p.kind = "exits" /\ p.duration < Timeout
                 /\ p.returncode = 0 /\ HasMarker(p.stdout) ) => test.result
            /\ ~exists => (test.launches = 0 /\ test.outcome = "not_found")
            /\ exists => test.launches = 1
            /\ p.kind = "hangs" => test.outcome = "timeout"
            /\ p.kind = "oserror" => test.outcome = "error"
            /\ (p.kind = "exits" /\ p.duration > Timeout) => test.outcome = "timeout"
            /\ test.outcome # "passed" => ~test.result
            /\ test.elapsed <= Timeout
            /\ pc \in AfterTestPcs
            /\ exitCode = <<>> \/ exitCode = <<0>>

\* C4 witness: a passed smoke test whose marker is not at the start of the output
C4_Witness ==
    /\ test.ran /\ test.result
    /\ test.proc.stdout = <<"2",":"," ">> \o s_Binary

\* C5, as stated: the raw machine string itself is matched, and any string
\* that matches nothing is returned unchanged.
C5_Original ==
    pc = "detected" =>
        LET raw == host.machine
            arch == detected[2]
        IN  IF raw = s_x86_64 THEN arch = s_amd64
            ELSE IF raw = s_aarch64 \/ raw = s_arm64 THEN arch = s_arm64
            ELSE IF StartsWith(raw, s_arm) THEN arch = s_arm
            ELSE arch = raw

\* C5, amended: get_platform_info lowercases the raw machine string first; the
\* lowercased string x86_64 gives amd64, aarch64 and arm64 give arm64, any
\* other one starting with arm gives arm, and every other one is returned
\* lowercased; the call always returns.
C5_LowercasedArch ==
    pc = "detected" =>
        LET raw == StrLower(host.machine)
            arch == detected[2]
        IN  /\ Len(detected) = 2
            /\ detected[1] = StrLower(host.system)
            /\ IF raw = s_x86_64 THEN arch = s_amd64
               ELSE IF raw = s_aarch64 \/ raw = s_arm64 THEN arch = s_arm64
               ELSE IF StartsWith(raw, s_arm) THEN arch = s_arm
               ELSE arch = raw

\* C5 witness: the machine string ARM64 has been normalised to arm64
C5_Witness ==
    /\ pc = "detected"
    /\ host.machine = Str_ARM64
    /\ detected[2] = s_arm64

\* C6: at the end of every run with exit code 0 exactly one artifact and
\* exactly one installer script exist, the artifact named for the detected
\* (os, arch) and the installer the variant of the detected os.
C6_OneArtifactOneInstaller ==
    (entry = "main" /\ pc = "done" /\ exitCode = <<0>>) =>
        /\ dist = {HostArtifact}
        /\ cwd \cap Installers = {VariantOf(HostOs)}

\* C7: a main run that directly follows a successful main run, its packaging
\* tool delivering again, leaves the output files of the first run: one renamed
\* artifact in dist, one installer script, nothing accumulated.
C7_RerunIdempotent ==
    ( /\ entry = "main" /\ pc = "done" /\ prev # <<>>
      /\ tool.returncode = 0 /\ tool.produced ) =>
        /\ dist = prev[1].dist
        /\ cwd = prev[1].cwd
        /\ dist = {HostArtifact}
        /\ cwd \cap Installers = {VariantOf(HostOs)}

\* C7 witness: the end of such a second run
C7_Witness ==
    /\ runs = 2 /\ entry = "main" /\ pc = "done" /\ prev # <<>>
    /\ tool.returncode = 0 /\ tool.produced
    /\ HostArtifact \in dist

\* C8: when the packaging tool exits 0 and no file is at the pre-rename path,
\* build_executable returns True, renames nothing and puts no file at the
\* platform name (one found there was there before the call), and main goes on
\* without a nonzero exit.
C8_MissingArtifactIsSuccess ==
    (tool.ran /\ tool.returncode = 0 /\ build.returned /\ ~build.found) =>
        /\ build.result
        /\ ~build.renamed /\ ~build.raised
        /\ \A i \in DOMAIN log : log[i] # "rename"
        /\ HostArtifact \in dist => (entry # "main" /\ build.targetExisted)
        /\ entry = "main" =>
              /\ pc \in {"main_after_build", "test"} \cup AfterTestPcs
              /\ exitCode = <<>> \/ exitCode = <<0>>

\* C8 witness: a main run that finished with exit code 0 and no artifact
C8_Witness ==
    /\ entry = "main" /\ pc = "done" /\ exitCode = <<0>>
    /\ tool.returncode = 0 /\ ~tool.produced /\ ~build.found
    /\ test.outcome = "not_found"

StepOrder ==
    <<"clean", "config", "tool", "rename", "test", "installer", "release_info">>

StepRank(e) == CHOOSE i \in DOMAIN StepOrder : StepOrder[i] = e

\* C9: the steps of a run happen in the order clean, config write, tool
\* invocation, rename, smoke test, installer write, release-info write, none of
\* them twice; the smoke test starts only after build_executable returned
\* True; installer and release info are written only after the smoke test.
C9_StepOrder ==
    /\ \A i, j \in DOMAIN log : i < j => StepRank(log[i]) < StepRank(log[j])
    /\ \A i \in DOMAIN log :
          /\ log[i] = "test" => (build.returned /\ build.result /\ tool.ran)
          /\ log[i] \in {"installer", "release_info"} => test.ran
          /\ log[i] = "release_info" => \E j \in 1..(i - 1) : log[j] = "installer"
          /\ log[i] = "rename" => \E j \in 1..(i - 1) : log[j] = "tool"
          /\ log[i] = "tool" => \E j \in 1..(i - 1) : log[j] = "config"
    /\ test.ran => \E i \in DOMAIN log : log[i] = "test"
    /\ entry = "main" =>
          /\ log # <<>> => log[1] = "clean"
          /\ pc = "done" =>
                \A k \in DOMAIN StepOrder :
                    StepOrder[k] # "rename" => \E i \in DOMAIN log : log[i] = StepOrder[k]

\* C9 witness: a finished run in which all seven steps happened
C9_Witness ==
    /\ entry = "main" /\ pc = "done"
    /\ log = StepOrder

\* C10: the name test_executable looks up is the name build_executable renames
\* to, .exe included exactly on windows; after a rename, test_executable does
\* not report the executable as not found.
C10_SamePath ==
    test.ran =>
        /\ TestExeName(detected[1], detected[2])
              = PlatformExeName(detected[1], detected[2])
        /\ TestExeName(detected[1], detected[2]) = HostArtifact
        /\ build.renamed => test.outcome # "not_found"

\* C10 witness: on windows, a smoke test that ran on a renamed artifact
C10_Witness ==
    /\ test.ran /\ build.renamed
    /\ HostOs = s_windows
    /\ test.launches = 1

===========================================================================
